---- MODULE Spec2Model ----
(***************************************************************************)
(* Model of docker_cp.py: the chunk-to-stream adapter (_Reader), the mode  *)
(* predicates (_is_dir, _is_reg), and the copy / copy_from / copy_to       *)
(* operations with the container engine and the local filesystem as their  *)
(* environment.                                                            *)
(*                                                                         *)
(* Byte strings and paths are sequences; a file mode is the set of the     *)
(* positions of its 1-bits (bit k stands for 1 << k), so that the 32-bit   *)
(* values 1 << 31 etc. are exact and `&` is set intersection.              *)
(***************************************************************************)
EXTENDS Integers, Sequences, FiniteSets, TLC

VARIABLES reader, rh, md, pc, args, sel, rc, raised, exc, log, files, env, calls

readerVars == <<reader, rh>>
modeVars == <<md>>
copyVars == <<pc, args, sel, rc, raised, exc, log, files, env, calls>>
vars == <<reader, rh, md, pc, args, sel, rc, raised, exc, log, files, env, calls>>

----------------------------------------------------------------------------
(* Bounds of the model *)

MaxChunks == 3
MaxChunkLen == 2
MaxRead == 4
MaxReads == 3
MaxStrLen == 3
MaxPayload == 2

----------------------------------------------------------------------------
(* Sequence helpers: Python slicing and concatenation *)

Min(a, b) == IF a < b THEN a ELSE b

\* s[:k] for k >= 0
Take(s, k) == SubSeq(s, 1, Min(k, Len(s)))

\* s[k:] for k >= 0
Drop(s, k) == SubSeq(s, Min(k, Len(s)) + 1, Len(s))

SeqsUpTo(S, n) == UNION {[1..k -> S] : k \in 0..n}

RECURSIVE Flatten(_)
Flatten(ss) == IF ss = <<>> THEN <<>> ELSE Head(ss) \o Flatten(Tail(ss))

IsPrefix(s, t) == Len(s) <= Len(t) /\ SubSeq(t, 1, Len(s)) = s

----------------------------------------------------------------------------
(* Constants of docker_cp.py *)

DEFAULT_BUF_SIZE == 1024
SEP == ":"

MODE_DIR == {32 - 1}
MODE_SYMLINK == {32 - 4}
MODE_DEV == {32 - 5}
MODE_NAMED_PIPE == {32 - 6}
MODE_SOCKET == {32 - 7}
MODE_CHAR_DEV == {32 - 10}
MODE_IRREGULAR == {32 - 12}
MODE_REG == MODE_DIR \cup MODE_SYMLINK \cup MODE_NAMED_PIPE \cup MODE_SOCKET
            \cup MODE_DEV \cup MODE_CHAR_DEV \cup MODE_IRREGULAR

_is_dir(mode) == (mode \cap MODE_DIR) # {}

\* mode & MODE_REG == 0, with the symlink bit left out of the mask
is_reg_nosymlink(mode) == (mode \cap (MODE_REG \ MODE_SYMLINK)) = {}

_is_reg(mode) == (mode \cap MODE_REG) = {}

----------------------------------------------------------------------------
(* _Reader *)

\* the buffer branch of read with the remainder thrown away
ReadFromBufferDropRest(b, n) == [rv |-> Take(b, n), buf |-> <<>>]

\* if len(self._buf) >= n: rv = self._buf[:n]; self._buf = self._buf[n:]
ReadFromBuffer(b, n) == [rv |-> Take(b, n), buf |-> Drop(b, n)]

\* the loop guard written len(rv) <= n
ReadLoopGuardLeq(rv, n) == Len(rv) <= n

\* while len(rv) < n
ReadLoopGuard(rv, n) == Len(rv) < n

\* The while loop of read. pulls counts the next() calls; a StopIteration
\* (the generator has no chunk left) is caught and ends the loop.
RECURSIVE ReadLoop(_, _, _, _, _)
ReadLoop(rv, b, g, n, pulls) ==
    IF ReadLoopGuard(rv, n)
    THEN IF g = <<>>
         THEN [rv |-> rv, buf |-> b, generator |-> g, pulls |-> pulls + 1,
               err |-> "none"]
         ELSE LET data == Head(g)
                  to_return == n - Len(rv)
              IN ReadLoop(rv \o b \o Take(data, to_return),
                          Drop(data, to_return), Tail(g), n, pulls + 1)
    ELSE [rv |-> rv, buf |-> b, generator |-> g, pulls |-> pulls, err |-> "none"]

\* _Reader.read(n) on the object r = [generator, buf]
read(r, n) ==
    IF Len(r.buf) >= n
    THEN LET x == ReadFromBuffer(r.buf, n)
         IN [rv |-> x.rv, buf |-> x.buf, generator |-> r.generator,
             pulls |-> 0, err |-> "none"]
    ELSE ReadLoop(r.buf, <<>>, r.generator, n, 0)

\* _Reader.__init__
NewReader(g) == [generator |-> g, buf |-> <<>>]

----------------------------------------------------------------------------
(* Values of the variables of a part of the program that a specification    *)
(* does not run                                                             *)

NoHist == [orig |-> <<>>, returned |-> <<>>, lastN |-> 0, lastRv |-> <<>>,
           lastR |-> 0, nreads |-> 0, short |-> FALSE, afterShort |-> FALSE,
           err |-> "none"]
NoMode == [mode |-> {}, is_dir |-> FALSE, is_reg |-> FALSE, evaluated |-> FALSE]
NoArgs == [buffer_length |-> 0, source |-> <<>>, destination |-> <<>>]
NoSel == [action |-> "none", container_name |-> <<>>, container_path |-> <<>>,
          local_path |-> <<>>]
NoExc == [kind |-> "none", text |-> "", arg |-> <<>>]
NoEnv == [connect |-> "none", fetch |-> "none", mode |-> {}, payload |-> <<>>,
          corrupt |-> FALSE, ioerr |-> FALSE, put |-> "none"]

ReaderIdle == reader = NewReader(<<>>) /\ rh = NoHist
ModeIdle == md = NoMode

----------------------------------------------------------------------------
(* The adapter driven by a consumer: test_reader generalised to every       *)
(* partition of the byte sequence 1, 2, ..., L into chunks and every         *)
(* sequence of read sizes                                                   *)

\* the chunks of the given lengths that partition start, start + 1, ...
RECURSIVE MkChunks(_, _)
MkChunks(lens, start) ==
    IF lens = <<>> THEN <<>>
    ELSE <<[i \in 1..Head(lens) |-> start + i - 1]>>
         \o MkChunks(Tail(lens), start + Head(lens))

\* mock_generator: a finite sequence of chunks, produced once and in order
ChunkSources == {MkChunks(lens, 1) : lens \in SeqsUpTo(0..MaxChunkLen, MaxChunks)}

\* the bytes the adapter still owes: residual buffer plus chunks to come
Remaining(r) == Len(r.buf) + Len(Flatten(r.generator))

InitReader ==
    /\ \E g \in ChunkSources :
          /\ reader = NewReader(g)
          /\ rh = [NoHist EXCEPT !.orig = Flatten(g)]
    /\ md = NoMode
    /\ pc = "idle" /\ args = NoArgs /\ sel = NoSel /\ rc = -1 /\ raised = "none"
    /\ exc = NoExc /\ log = <<>> /\ files = <<>> /\ env = NoEnv /\ calls = 0

\* one call reader.read(n)
ReaderRead ==
    /\ rh.nreads < MaxReads
    /\ \E n \in 0..MaxRead :
          LET x == read(reader, n)
          IN /\ reader' = [generator |-> x.generator, buf |-> x.buf]
             /\ rh' = [orig |-> rh.orig,
                       returned |-> rh.returned \o x.rv,
                       lastN |-> n,
                       lastRv |-> x.rv,
                       lastR |-> Remaining(reader),
                       nreads |-> rh.nreads + 1,
                       short |-> rh.short \/ Len(x.rv) < n,
                       afterShort |-> rh.short,
                       err |-> x.err]
    /\ UNCHANGED <<modeVars, copyVars>>

NextReader == ReaderRead

SpecReader == InitReader /\ [][NextReader]_vars

----------------------------------------------------------------------------
(* The mode predicates applied to a mode *)

\* the seven type bits, the permission bit 0 and the setuid, sticky bits
ModeBits == MODE_REG \cup {0, 32 - 9, 32 - 11}

InitMode ==
    /\ \E m \in SUBSET ModeBits : md = [NoMode EXCEPT !.mode = m]
    /\ ReaderIdle
    /\ pc = "idle" /\ args = NoArgs /\ sel = NoSel /\ rc = -1 /\ raised = "none"
    /\ exc = NoExc /\ log = <<>> /\ files = <<>> /\ env = NoEnv /\ calls = 0

EvalMode ==
    /\ ~md.evaluated
    /\ md' = [mode |-> md.mode, is_dir |-> _is_dir(md.mode),
              is_reg |-> _is_reg(md.mode), evaluated |-> TRUE]
    /\ UNCHANGED <<readerVars, copyVars>>

NextMode == EvalMode

SpecMode == InitMode /\ [][NextMode]_vars

----------------------------------------------------------------------------
(* Strings and paths: str.split, os.path.dirname, os.path.basename *)

Chars == {":", "/", "a"}
Strings == SeqsUpTo(Chars, MaxStrLen)

\* SEP in s
HasSep(s) == \E i \in 1..Len(s) : s[i] = SEP

\* s.split(SEP, maxsplit=1), for s containing SEP
split(s) ==
    LET i == CHOOSE k \in 1..Len(s) :
                 s[k] = SEP /\ \A j \in 1..(k - 1) : s[j] # SEP
    IN <<SubSeq(s, 1, i - 1), SubSeq(s, i + 1, Len(s))>>

\* p.rfind('/') + 1
RFindSlash(p) ==
    IF \E i \in 1..Len(p) : p[i] = "/"
    THEN CHOOSE i \in 1..Len(p) : p[i] = "/" /\ \A j \in (i + 1)..Len(p) : p[j] # "/"
    ELSE 0

RECURSIVE RStripSlash(_)
RStripSlash(p) ==
    IF p # <<>> /\ p[Len(p)] = "/" THEN RStripSlash(SubSeq(p, 1, Len(p) - 1)) ELSE p

\* os.path.dirname: the head up to the last slash, trailing slashes removed
\* unless the head is slashes only
dirname(p) ==
    LET head == SubSeq(p, 1, RFindSlash(p))
    IN IF head # <<>> /\ (\E i \in 1..Len(head) : head[i] # "/")
       THEN RStripSlash(head)
       ELSE head

\* os.path.basename: what follows the last slash
basename(p) == SubSeq(p, RFindSlash(p) + 1, Len(p))

----------------------------------------------------------------------------
(* The local filesystem: the directory tree is fixed, files are written *)

\* the segments of p between slashes, empty ones dropped
RECURSIVE Segments(_, _)
Segments(p, cur) ==
    IF p = <<>> THEN (IF cur = <<>> THEN <<>> ELSE <<cur>>)
    ELSE IF Head(p) = "/"
         THEN (IF cur = <<>> THEN <<>> ELSE <<cur>>) \o Segments(Tail(p), <<>>)
         ELSE Segments(Tail(p), Append(cur, Head(p)))

Cwd == << <<"a">> >>
Dirs == { <<>>, << <<"a">> >> }
InitFiles == (<< <<"a", "a">> >> :> <<7>>) @@ (<< <<"a">>, <<"a", "a">> >> :> <<8, 9>>)

\* the absolute location a path names
Resolve(p) ==
    IF p # <<>> /\ p[1] = "/" THEN Segments(p, <<>>) ELSE Cwd \o Segments(p, <<>>)

\* os.path.isdir
isdir(p) == p # <<>> /\ Resolve(p) \in Dirs

\* os.path.isfile
isfile(p, fl) == p # <<>> /\ p[Len(p)] # "/" /\ Resolve(p) \in DOMAIN fl

\* open(path, 'wb') followed by the writes of content
WriteFile(fl, where, content) == (where :> content) @@ fl

----------------------------------------------------------------------------
(* The container engine and the tar stream it serves.  A stream is a header *)
(* (the marker -1 and the payload size) followed by the payload.            *)

TarEncode(payload) == <<-1, Len(payload)>> \o payload

ValidHeader(block) == Len(block) >= 2 /\ block[1] = -1 /\ Len(block) >= 2 + block[2]

TarPayload(block) == SubSeq(block, 3, 2 + block[2])

\* the engine cuts the stream into chunks of chunk_size bytes
RECURSIVE Chunked(_, _)
Chunked(stream, size) ==
    IF stream = <<>> THEN <<>>
    ELSE <<Take(stream, size)>> \o Chunked(Drop(stream, size), size)

\* the name of the entry the engine archives a path under
ArchiveName(path) == IF basename(path) = <<>> THEN <<"a">> ELSE basename(path)

Ev(op, path, name, arg, res) ==
    [op |-> op, path |-> path, name |-> name, arg |-> arg, res |-> res]

RECURSIVE Repeat(_, _)
Repeat(e, k) == IF k = 0 THEN <<>> ELSE <<e>> \o Repeat(e, k - 1)

Exc(kind, text, arg) == [kind |-> kind, text |-> text, arg |-> arg]

Outcome(e, l, fl) == [exc |-> e, log |-> l, files |-> fl]

----------------------------------------------------------------------------
(* get_stat, copy_from, copy_to *)

\* get_stat: an archive fetch with the library's chunk size (arg 0), whose
\* stream is closed at once
get_stat(path, e) ==
    IF e.fetch = "APIError"
    THEN [ok |-> FALSE, mode |-> {},
          log |-> <<Ev("get_archive", path, <<>>, 0, "APIError")>>]
    ELSE [ok |-> TRUE, mode |-> e.mode,
          log |-> <<Ev("get_archive", path, <<>>, 0, "ok"),
                    Ev("close", <<>>, <<>>, 0, "ok")>>]

\* the mode test made only after the destination checks
copy_from_reject_late(mode, dest) == ~_is_reg(mode) /\ ~isdir(dest)

\* if not _is_reg(st['mode']): raise CopyError
copy_from_reject(mode, dest) == ~_is_reg(mode)

\* sf.read(DEFAULT_BUF_SIZE) / df.write(chunk) until an empty chunk
RECURSIVE CopyLoop(_, _)
CopyLoop(src, written) ==
    LET chunk == Take(src, DEFAULT_BUF_SIZE)
    IN IF chunk # <<>> THEN CopyLoop(Drop(src, DEFAULT_BUF_SIZE), written \o chunk)
       ELSE written

\* the body of the try block of copy_from, with its except clause
copy_from_try(path, dest, fl, e) ==
    IF copy_from_reject(e.mode, dest)
    THEN Outcome(Exc("CopyError", "Only regular files are supported", <<>>), <<>>, fl)
    ELSE
    LET stream == IF e.corrupt THEN <<-2>> ELSE TarEncode(e.payload)
        x == read(NewReader(Chunked(stream, DEFAULT_BUF_SIZE)), DEFAULT_BUF_SIZE)
        pulled == Repeat(Ev("next", <<>>, <<>>, 0, "ok"), x.pulls)
    IN  IF ~ValidHeader(x.rv)
        THEN Outcome(Exc("Other", "ReadError", <<>>), pulled, fl)
        ELSE IF isdir(dest)
        THEN LET target == Resolve(dest) \o <<ArchiveName(path)>>
             IN IF target \in Dirs
                THEN Outcome(Exc("CopyError", "Destination is a directory", <<>>),
                             pulled, fl)
                ELSE IF e.ioerr
                THEN Outcome(Exc("Other", "OSError", <<>>), pulled, fl)
                ELSE Outcome(Exc("none", "", <<>>), pulled,
                             WriteFile(fl, target, TarPayload(x.rv)))
        ELSE LET parent == dirname(dest)
             IN IF ~isdir(parent)
                THEN Outcome(Exc("CopyError", "Not a directory: ", parent), pulled, fl)
                ELSE IF e.ioerr
                THEN Outcome(Exc("Other", "OSError", <<>>), pulled, fl)
                ELSE Outcome(Exc("none", "", <<>>), pulled,
                             WriteFile(fl, Resolve(dest),
                                       CopyLoop(TarPayload(x.rv), <<>>)))

\* the stream closed only when the body ended without an exception
copy_from_finally_skip(l, failed) ==
    IF failed THEN l ELSE Append(l, Ev("close", <<>>, <<>>, 0, "ok"))

\* finally: data.close()
copy_from_finally(l, failed) == Append(l, Ev("close", <<>>, <<>>, 0, "ok"))

copy_from(path, dest, fl, e) ==
    IF e.fetch = "APIError"
    THEN Outcome(Exc("APIError", "", <<>>),
                 <<Ev("get_archive", path, <<>>, DEFAULT_BUF_SIZE, "APIError")>>, fl)
    ELSE LET body == copy_from_try(path, dest, fl, e)
         IN Outcome(body.exc,
                    copy_from_finally(
                        <<Ev("get_archive", path, <<>>, DEFAULT_BUF_SIZE, "ok")>>
                            \o body.log,
                        body.exc.kind # "none"),
                    body.files)

\* the branches of copy_to swapped between directory and regular file
copy_to_target_swapped(path, src, st) ==
    IF ~st.ok
    THEN [ok |-> TRUE, dest_dir |-> dirname(path), dest_file |-> basename(path)]
    ELSE IF _is_dir(st.mode)
    THEN [ok |-> TRUE, dest_dir |-> dirname(path), dest_file |-> basename(path)]
    ELSE IF _is_reg(st.mode)
    THEN [ok |-> TRUE, dest_dir |-> path, dest_file |-> basename(src)]
    ELSE [ok |-> FALSE, dest_dir |-> <<>>, dest_file |-> <<>>]

\* the target directory and entry name copy_to derives from the stat
copy_to_target(path, src, st) ==
    IF ~st.ok
    THEN [ok |-> TRUE, dest_dir |-> dirname(path), dest_file |-> basename(path)]
    ELSE IF _is_dir(st.mode)
    THEN [ok |-> TRUE, dest_dir |-> path, dest_file |-> basename(src)]
    ELSE IF _is_reg(st.mode)
    THEN [ok |-> TRUE, dest_dir |-> dirname(path), dest_file |-> basename(path)]
    ELSE [ok |-> FALSE, dest_dir |-> <<>>, dest_file |-> <<>>]

copy_to(path, src, fl, e) ==
    IF ~isfile(src, fl)
    THEN Outcome(Exc("CopyError", "Not a file: ", src), <<>>, fl)
    ELSE
    LET st == get_stat(path, e)
        t == copy_to_target(path, src, st)
        \* tarf.add(src, arcname=dest_file): one entry holding the file
        entries == <<[name |-> t.dest_file, payload |-> fl[Resolve(src)]]>>
    IN  IF ~t.ok
        THEN Outcome(Exc("CopyError", "Unable to overwrite ", path), st.log, fl)
        ELSE Outcome(IF e.put = "APIError" THEN Exc("APIError", "", <<>>)
                     ELSE Exc("none", "", <<>>),
                     Append(st.log,
                            Ev("put_archive", t.dest_dir, t.dest_file,
                               Len(entries), e.put)),
                     fl)

----------------------------------------------------------------------------
(* copy *)

BufferLengths == {-1, 0, 2, DEFAULT_BUF_SIZE}

Payloads == {[i \in 1..k |-> i] : k \in 0..MaxPayload}

\* the modes the engine reports: no type bit, one type bit, directory + symlink
CopyModes == {{}} \cup {{b} : b \in MODE_REG} \cup {MODE_DIR \cup MODE_SYMLINK}

\* what the engine and the local disk may answer during copy_from: the
\* fetch fails, or it serves a tar stream (and the local write may fail), or
\* it serves a stream that is no tar archive
FromEnvs ==
    {[NoEnv EXCEPT !.fetch = "APIError"]}
    \cup {[NoEnv EXCEPT !.fetch = "ok", !.mode = m, !.payload = p, !.ioerr = i] :
            m \in CopyModes, p \in Payloads, i \in BOOLEAN}
    \cup {[NoEnv EXCEPT !.fetch = "ok", !.mode = m, !.corrupt = TRUE] :
            m \in CopyModes}

\* what the engine may answer during copy_to
ToEnvs ==
    {[NoEnv EXCEPT !.fetch = "APIError", !.put = u] : u \in {"ok", "APIError"}}
    \cup {[NoEnv EXCEPT !.fetch = "ok", !.mode = m, !.put = u] :
            m \in CopyModes, u \in {"ok", "APIError"}}

\* buffer_length tested with < in place of <=
copy_bad_buffer_lt(a) == a.buffer_length < 0

\* if args.buffer_length <= 0
copy_bad_buffer(a) == a.buffer_length <= 0

\* a handler list with a catch-all added
copy_except_catch_all(kind) ==
    CASE kind = "none" -> [rc |-> 0, raised |-> "none"]
      [] kind = "APIError" -> [rc |-> 2, raised |-> "none"]
      [] kind = "CopyError" -> [rc |-> 2, raised |-> "none"]
      [] OTHER -> [rc |-> 2, raised |-> "none"]

\* the except clauses of copy: APIError and CopyError give 2, anything else
\* is raised as is, no exception gives the final return 0
copy_except(kind) ==
    CASE kind = "none" -> [rc |-> 0, raised |-> "none"]
      [] kind = "APIError" -> [rc |-> 2, raised |-> "none"]
      [] kind = "CopyError" -> [rc |-> 2, raised |-> "none"]
      [] OTHER -> [rc |-> -1, raised |-> kind]

Init ==
    /\ pc = "start"
    /\ args \in [buffer_length : BufferLengths, source : Strings,
                 destination : Strings]
    /\ sel = NoSel /\ rc = -1 /\ raised = "none" /\ exc = NoExc /\ log = <<>>
    /\ files = InitFiles /\ env = NoEnv /\ calls = 0
    /\ ReaderIdle /\ ModeIdle

\* copy up to the choice of the action: an invalid invocation returns 1
CopyValidate ==
    /\ pc = "start"
    /\ LET src == args.source
           dst == args.destination
       IN IF copy_bad_buffer(args)
          THEN pc' = "done" /\ rc' = 1 /\ sel' = sel
          ELSE IF HasSep(src) /\ ~HasSep(dst)
          THEN /\ sel' = [action |-> "copy_from", container_name |-> split(src)[1],
                          container_path |-> split(src)[2], local_path |-> dst]
               /\ pc' = "resolved" /\ rc' = rc
          ELSE IF HasSep(dst) /\ ~HasSep(src)
          THEN /\ sel' = [action |-> "copy_to", container_name |-> split(dst)[1],
                          container_path |-> split(dst)[2], local_path |-> src]
               /\ pc' = "resolved" /\ rc' = rc
          ELSE pc' = "done" /\ rc' = 1 /\ sel' = sel
    /\ UNCHANGED <<args, raised, exc, log, files, env, calls, readerVars, modeVars>>

\* client = docker.from_env(); container = client.containers.get(name)
CopyConnect ==
    /\ pc = "resolved"
    /\ \E c \in {"ok", "APIError", "Other"} :
          LET fromEnv == Ev("from_env", <<>>, <<>>, 0, IF c = "Other" THEN c ELSE "ok")
              get == Ev("containers.get", <<>>, sel.container_name, 0, c)
              r == copy_except(c)
          IN /\ env' = [env EXCEPT !.connect = c]
             /\ log' = IF c = "Other" THEN <<fromEnv>> ELSE <<fromEnv, get>>
             /\ IF c = "ok"
                THEN pc' = "connected" /\ rc' = rc /\ raised' = raised /\ exc' = exc
                ELSE /\ pc' = "done" /\ rc' = r.rc /\ raised' = r.raised
                     /\ exc' = Exc(c, "", <<>>)
    /\ UNCHANGED <<args, sel, files, calls, readerVars, modeVars>>

\* action(container, container_path, local_path) with action = copy_from
CopyCallFrom ==
    /\ pc = "connected" /\ sel.action = "copy_from"
    /\ \E e \in FromEnvs :
          LET o == copy_from(sel.container_path, sel.local_path, files, e)
              r == copy_except(o.exc.kind)
          IN /\ env' = [e EXCEPT !.connect = env.connect]
             /\ log' = log \o o.log
             /\ files' = o.files
             /\ exc' = o.exc
             /\ rc' = r.rc /\ raised' = r.raised
    /\ calls' = calls + 1
    /\ pc' = "done"
    /\ UNCHANGED <<args, sel, readerVars, modeVars>>

\* action(container, container_path, local_path) with action = copy_to
CopyCallTo ==
    /\ pc = "connected" /\ sel.action = "copy_to"
    /\ \E e \in ToEnvs :
          LET o == copy_to(sel.container_path, sel.local_path, files, e)
              r == copy_except(o.exc.kind)
          IN /\ env' = [e EXCEPT !.connect = env.connect]
             /\ log' = log \o o.log
             /\ files' = o.files
             /\ exc' = o.exc
             /\ rc' = r.rc /\ raised' = r.raised
    /\ calls' = calls + 1
    /\ pc' = "done"
    /\ UNCHANGED <<args, sel, readerVars, modeVars>>

Next == CopyValidate \/ CopyConnect \/ CopyCallFrom \/ CopyCallTo

Spec == Init /\ [][Next]_vars

----------------------------------------------------------------------------
(* C1 - C2, C10 *)

\* C1: the concatenation of the results returned so far is a prefix of the
\* concatenation of all source chunks, and once a read has returned fewer
\* bytes than requested it equals it: no byte dropped, duplicated, reordered.
C1_AdapterExactness ==
    /\ IsPrefix(rh.returned, rh.orig)
    /\ rh.short => rh.returned = rh.orig

\* a short read has happened after reads that crossed chunk boundaries and
\* left a residue, over a source with an empty chunk
C1_Witness ==
    /\ rh.short /\ rh.nreads = 3 /\ Len(rh.orig) >= 4
    /\ rh.returned = rh.orig /\ Len(rh.lastRv) > 0

\* C2: read(n) returns exactly min(n, R) bytes, R the bytes not yet returned
\* before the call; after a short read every read returns the empty string;
\* no read raises.
C2_ShortReadOnlyAtExhaustion ==
    rh.nreads > 0 =>
        /\ Len(rh.lastRv) = Min(rh.lastN, rh.lastR)
        /\ rh.afterShort => rh.lastRv = <<>>
        /\ rh.err = "none"

\* a read after a short read, asking for bytes, got the empty string
C2_Witness ==
    /\ rh.afterShort /\ rh.lastN > 0 /\ rh.lastRv = <<>> /\ Len(rh.orig) >= 2

\* C10 as claimed: _is_reg iff no type bit is set, and _is_dir iff the
\* directory bit is set and none of the other six; so never both.
C10_Original ==
    md.evaluated =>
        /\ md.is_reg <=> (md.mode \cap {31, 28, 27, 26, 25, 22, 20}) = {}
        /\ md.is_dir <=> (31 \in md.mode
                          /\ (md.mode \cap {28, 27, 26, 25, 22, 20}) = {})
        /\ ~(md.is_reg /\ md.is_dir)

\* C10 amended: _is_reg iff no type bit is set (an all-zero mode is regular),
\* and _is_dir iff the directory bit is set, whatever the other bits; no mode
\* is both regular and directory.
C10_ModePredicates ==
    md.evaluated =>
        /\ md.is_reg <=> (md.mode \cap {31, 28, 27, 26, 25, 22, 20}) = {}
        /\ md.is_dir <=> 31 \in md.mode
        /\ ~(md.is_reg /\ md.is_dir)

\* a mode with the directory bit and another type bit has been classified
C10_Witness ==
    /\ md.evaluated /\ 31 \in md.mode /\ 28 \in md.mode
    /\ md.is_dir /\ ~md.is_reg

----------------------------------------------------------------------------
(* C3 - C9 *)

TypeBits == {31, 28, 27, 26, 25, 22, 20}

ContainsMarker(s) == \E i \in 1..Len(s) : s[i] = ":"

InvalidInvocation ==
    \/ args.buffer_length <= 0
    \/ (ContainsMarker(args.source) <=> ContainsMarker(args.destination))

LogOps(op) == {i \in 1..Len(log) : log[i].op = op}

OkFetches == {i \in LogOps("get_archive") : log[i].res = "ok"}

Returned == pc = "done"

\* C3: copy returns 1 iff the chunk size is not positive or not exactly one
\* of source and destination carries the marker, and then nothing was asked
\* of the engine and no action was called.
C3_InvocationValidation ==
    /\ Returned => (rc = 1 <=> InvalidInvocation)
    /\ rc = 1 => Returned
    /\ InvalidInvocation =>
          /\ log = <<>> /\ calls = 0 /\ sel.action = "none"
          /\ pc \in {"start", "done"}

\* copy has returned 1 for a positive chunk size with the marker on both sides
C3_Witness ==
    /\ Returned /\ rc = 1 /\ args.buffer_length = 2
    /\ ContainsMarker(args.source) /\ ContainsMarker(args.destination)

C4_Mapping ==
    /\ sel.action = IF ContainsMarker(args.source) THEN "copy_from" ELSE "copy_to"
    /\ rc = 0 <=> (env.connect = "ok" /\ exc.kind = "none")
    /\ rc = 2 <=> exc.kind \in {"APIError", "CopyError"}
    /\ exc.kind = "Other" <=> (raised = "Other" /\ rc = -1)
    /\ rc \in {0, 2, -1}

\* C4 as claimed: a valid invocation calls the selected action exactly once,
\* returns 0 iff lookup and action complete, 2 iff either raises APIError or
\* CopyError, and lets any other exception propagate.
C4_Original ==
    (Returned /\ ~InvalidInvocation) => (C4_Mapping /\ calls = 1)

\* C4 amended: the selected action is called exactly once when the client
\* creation and the container lookup succeed and not at all when they raise;
\* the exit codes are as claimed.
C4_ExitCodes ==
    (Returned /\ ~InvalidInvocation) =>
        (C4_Mapping /\ calls = IF env.connect = "ok" THEN 1 ELSE 0)

\* the container lookup raised APIError: copy returned 2, no action called
C4_Witness ==
    /\ Returned /\ ~InvalidInvocation /\ env.connect = "APIError"
    /\ rc = 2 /\ calls = 0

\* C5: in the download direction the archive fetch is requested with the
\* configured chunk size args.buffer_length.
C5_ConfiguredChunkSize ==
    (Returned /\ sel.action = "copy_from") =>
        \A i \in LogOps("get_archive") : log[i].arg = args.buffer_length

\* C6: when the fetched mode has a type bit set, copy_from raises CopyError
\* 'Only regular files are supported' whatever the destination, having pulled
\* no chunk and written no local file.
C6_RejectNonRegular ==
    (Returned /\ sel.action = "copy_from" /\ env.fetch = "ok"
              /\ (env.mode \cap TypeBits) # {}) =>
        /\ exc = [kind |-> "CopyError", text |-> "Only regular files are supported",
                  arg |-> <<>>]
        /\ LogOps("next") = {}
        /\ files = InitFiles

\* a symlink was fetched towards an existing directory and rejected
C6_Witness ==
    /\ Returned /\ sel.action = "copy_from" /\ env.fetch = "ok"
    /\ env.mode = {28} /\ sel.local_path = <<"/">>
    /\ exc.kind = "CopyError" /\ rc = 2

WellFormedFile(p) == p # <<>> /\ p[Len(p)] # "/"

ParentExists(p) ==
    LET r == Resolve(p) IN r # <<>> /\ SubSeq(r, 1, Len(r) - 1) \in Dirs

\* C7: for a regular file and a destination that is no existing directory,
\* copy_from raises CopyError 'Not a directory: <parent>' exactly when the
\* parent directory of the destination does not exist, writing nothing, and
\* otherwise writes the whole payload to the destination; for every
\* destination, relative paths without a directory component included.
C7_LiteralFilePath ==
    (/\ Returned /\ sel.action = "copy_from" /\ env.fetch = "ok"
     /\ (env.mode \cap TypeBits) = {} /\ ~env.corrupt /\ ~env.ioerr
     /\ WellFormedFile(sel.local_path) /\ Resolve(sel.local_path) \notin Dirs) =>
        /\ (exc.kind = "CopyError" /\ exc.text = "Not a directory: ")
              <=> ~ParentExists(sel.local_path)
        /\ ~ParentExists(sel.local_path) => files = InitFiles
        /\ ParentExists(sel.local_path) =>
              /\ exc.kind = "none"
              /\ Resolve(sel.local_path) \in DOMAIN files
              /\ files[Resolve(sel.local_path)] = env.payload

C9_StreamReleased ==
    /\ \A i \in LogOps("next") : \A j \in LogOps("close") : i < j
    /\ \A j \in LogOps("close") : \E i \in OkFetches : i < j
    /\ Returned => Cardinality(LogOps("close")) = Cardinality(OkFetches)

\* copy_from ended on a local I/O failure after pulling chunks, stream closed
C9_Witness ==
    /\ Returned /\ sel.action = "copy_from" /\ env.ioerr /\ exc.kind = "Other"
    /\ LogOps("next") # {}
    /\ Cardinality(LogOps("close")) = 1

====
